---- MODULE Spec2Model ----
(***************************************************************************)
(* Model of UserResolver (src/src/resolvers/user.ts): register, login, me, *)
(* logout and forgotPassword over a User Store (em), a session store       *)
(* (req.session), a Token Store (redis) and a Notifier (sendEmail).        *)
(*                                                                         *)
(* Strings are sequences of one-character strings, so that                 *)
(* String.prototype.includes and .length are computed, not assumed.        *)
(***************************************************************************)
EXTENDS Integers, Sequences, FiniteSets, TLC

(***************************************************************************)
(* Bounds of the model.                                                    *)
(***************************************************************************)
\* number of uuid tokens v4() hands out in a run
MaxTokens == 2
\* number of clock advances in a run
MaxTicks == 2
\* number of register calls that run concurrently
MaxCallers == 2

(***************************************************************************)
(* Input universes.                                                        *)
(***************************************************************************)
S_al == <<"a", "l">>
S_bob == <<"b", "o", "b">>
S_amy == <<"a", "m", "y">>
S_a_at_x == <<"a", "@", "x">>
S_b_at_x == <<"b", "@", "x">>
S_pw == <<"p", "w">>
S_pw1 == <<"p", "w", "1">>
S_pw2 == <<"p", "w", "2">>

\* values offered as login identifier and as forgotPassword email
Strings == {S_al, S_bob, S_amy, S_a_at_x, S_b_at_x}
\* values offered as username: too short, two valid ones, one with an @
UsernameInputs == {S_al, S_bob, S_amy, S_a_at_x}
\* values offered as email: two valid ones, one without an @
EmailInputs == {S_a_at_x, S_b_at_x, S_bob}
\* values offered as password to login
Passwords == {S_pw, S_pw1, S_pw2}
\* values offered as password to register: one too short, one valid
RegisterPasswords == {S_pw, S_pw1}
\* client sessions (session cookies)
Sessions == {"s1", "s2"}
\* concurrent register requests
Callers == 1..MaxCallers

\* String.prototype.includes for a one-character needle
Includes(s, c) == \E i \in 1..Len(s) : s[i] = c

(***************************************************************************)
(* Credential Hasher: argon2.hash / argon2.verify.  The hash is a tagged   *)
(* value distinct from the plaintext; verify recomputes and compares.      *)
(***************************************************************************)
Argon2Hash(plain) == [alg |-> "argon2", of |-> plain]

Argon2Verify(hash, plain) == hash = Argon2Hash(plain)

(***************************************************************************)
(* Input Validator: validateRegister (../utils/validateRegister).  Every   *)
(* violation is reported; the empty sequence is the falsy "no errors"      *)
(* value tested by register.                                               *)
(***************************************************************************)
MinLength == 3

validateRegister(options) ==
    (IF Len(options.username) >= MinLength THEN <<>>
     ELSE <<[field |-> "username", message |-> "length must be at least 3"]>>)
    \o
    (IF ~Includes(options.username, "@") THEN <<>>
     ELSE <<[field |-> "username", message |-> "cannot include an @"]>>)
    \o
    (IF Includes(options.email, "@") THEN <<>>
     ELSE <<[field |-> "email", message |-> "invalid email"]>>)
    \o
    (IF Len(options.password) >= MinLength THEN <<>>
     ELSE <<[field |-> "password", message |-> "length must be at least 3"]>>)

(***************************************************************************)
(* User Store.                                                             *)
(***************************************************************************)
\* first value of the serial primary key of the user table
FirstId == 1

\* the absent value (null) returned by em.findOne and by me
Null == [null |-> TRUE]

IsNull(v) == "null" \in DOMAIN v

\* em.findOne(User, {field: value}): the matching row, or null
FindOne(us, field, value) ==
    IF \E u \in us : u[field] = value
    THEN CHOOSE u \in us : u[field] = value
    ELSE Null

\* Outcome of the INSERT ... RETURNING * on the user table.  fault is the
\* storage fault injected into this call: "none", "detail_other" (the
\* driver error carries a detail that is not a uniqueness violation) or
\* "no_detail" (the driver error carries no detail, e.g. connection lost).
\* Without a fault the unique indexes on username and on email decide.
InsertUser(us, fields, fault) ==
    IF fault = "no_detail" THEN [err |-> [message |-> "connection terminated"]]
    ELSE IF fault = "detail_other"
    THEN [err |-> [detail |-> [column |-> "none", text |-> "failing row contains"]]]
    ELSE IF \E u \in us : u.username = fields.username
    THEN [err |-> [detail |-> [column |-> "username", text |-> "already exists"]]]
    ELSE IF \E u \in us : u.email = fields.email
    THEN [err |-> [detail |-> [column |-> "email", text |-> "already exists"]]]
    ELSE [row |-> [id |-> FirstId + Cardinality(us),
                   username |-> fields.username,
                   email |-> fields.email,
                   password |-> fields.password]]

(***************************************************************************)
(* State.                                                                  *)
(***************************************************************************)
VARIABLES
    users,      \* User Store: set of rows [id, username, email, password]
    session,    \* session store: [Sessions -> session object]
    redis,      \* Token Store: key -> [value, expireAt]
    sent,       \* Notifier: sequence of sendEmail invocations
    now,        \* clock of the Token Store, in seconds
    ticks,      \* number of clock advances so far
    tokenCount, \* number of tokens v4() has generated
    issued,     \* history: token -> [email, userId, at] of the call that stored it
    loggedOut,  \* history: [Sessions -> BOOLEAN], logout was called on the session
                \* and no login has succeeded on it since
    lastLogin,  \* history: [Sessions -> <<>> or <<id>>], the id of the user returned
                \* by the latest successful login on the stored session object
    reg,        \* register calls in flight: [Callers -> [pc, ...]]
    lastOp      \* history: the last operation, its inputs and its outcome

vars == <<users, session, redis, sent, now, ticks, tokenCount, issued, loggedOut,
          lastLogin, reg, lastOp>>

\* outcome of a handler: a returned value or a thrown error
Return(v) == [kind |-> "return", value |-> v]

Throw(e) == [kind |-> "throw", error |-> e]

(***************************************************************************)
(* register (lines 69-108)                                                 *)
(***************************************************************************)
\* RegisterCatch with the duplicate test narrowed to the username column
RegisterCatch_UsernameColumnOnly(err) ==
    IF "detail" \notin DOMAIN err
    THEN Throw("TypeError")
    ELSE IF err.detail.text = "already exists" /\ err.detail.column = "username"
    THEN Return([errors |-> <<[field |-> "username",
                               message |-> "this username has already been taken"]>>])
    ELSE Return([user |-> Null])

\* the catch block (lines 94-106): the handler's outcome for a failed insert
RegisterCatch(err) ==
    IF "detail" \notin DOMAIN err
    THEN Throw("TypeError")
    ELSE IF err.detail.text = "already exists"
    THEN Return([errors |-> <<[field |-> "username",
                               message |-> "this username has already been taken"]>>])
    ELSE Return([user |-> Null])

\* RegisterOutcome that swallows a failed insert and answers with the
\* record it tried to write
RegisterOutcome_IgnoresInsertError(us, options, fault) ==
    LET errors == validateRegister(options) IN
    IF errors # <<>>
    THEN [out |-> Return([errors |-> errors]), users |-> us]
    ELSE
    LET hashedPassword == Argon2Hash(options.password)
        fields == [username |-> options.username,
                   email |-> options.email,
                   password |-> hashedPassword]
        result == InsertUser(us, fields, fault)
    IN  IF "row" \in DOMAIN result
        THEN [out |-> Return([user |-> result.row]), users |-> us \cup {result.row}]
        ELSE [out |-> Return([user |-> fields]), users |-> us]

\* the whole handler: [out, users] for the given store and inputs
RegisterOutcome(us, options, fault) ==
    LET errors == validateRegister(options) IN
    IF errors # <<>>
    THEN [out |-> Return([errors |-> errors]), users |-> us]
    ELSE
    LET hashedPassword == Argon2Hash(options.password)
        result == InsertUser(us, [username |-> options.username,
                                  email |-> options.email,
                                  password |-> hashedPassword], fault)
    IN  IF "row" \in DOMAIN result
        THEN [out |-> Return([user |-> result.row]), users |-> us \cup {result.row}]
        ELSE [out |-> RegisterCatch(result.err), users |-> us]

InsertFaults == {"none", "detail_other", "no_detail"}

\* Register that also logs the new user in on the session of the request
Register_LogsIn(options, fault) ==
    LET r == RegisterOutcome(users, options, fault)
        ok == r.out.kind = "return" /\ "user" \in DOMAIN r.out.value
                /\ ~IsNull(r.out.value.user)
    IN
    /\ fault # "none" => validateRegister(options) = <<>>
    /\ users' = r.users
    /\ lastOp' = [op |-> "register", options |-> options, fault |-> fault,
                  out |-> r.out]
    /\ \E s \in Sessions :
          /\ session' = IF ok THEN [session EXCEPT ![s] =
                             [destroyed |-> FALSE, userId |-> r.out.value.user.id]]
                        ELSE session
          /\ lastLogin' = IF ok THEN [lastLogin EXCEPT ![s] = <<r.out.value.user.id>>]
                          ELSE lastLogin
    /\ UNCHANGED <<redis, sent, now, ticks, tokenCount, issued, loggedOut, reg>>

\* A storage fault can only be injected into a call that reaches the insert.
Register(options, fault) ==
    LET r == RegisterOutcome(users, options, fault) IN
    /\ fault # "none" => validateRegister(options) = <<>>
    /\ users' = r.users
    /\ lastOp' = [op |-> "register", options |-> options, fault |-> fault,
                  out |-> r.out]
    /\ UNCHANGED <<session, redis, sent, now, ticks, tokenCount, issued, loggedOut, lastLogin,
                   reg>>

(***************************************************************************)
(* register as concurrent requests.  A call validates and awaits           *)
(* argon2.hash (lines 74-79), then awaits the insert (lines 81-93); other  *)
(* calls run between the two.  Validation and hashing are pure, so the     *)
(* second step evaluates the handler against the User Store as it is when  *)
(* the insert runs.  inflight records the calls that were between their    *)
(* two steps when this call began.                                         *)
(***************************************************************************)
RegisterBegin(c, options) ==
    LET errors == validateRegister(options)
        inflight == {d \in Callers : reg[d].pc = "insert"}
    IN
    /\ reg[c].pc = "idle"
    /\ reg' = [reg EXCEPT ![c] =
                 IF errors # <<>>
                 THEN [pc |-> "done", options |-> options, fault |-> "none",
                       inflight |-> inflight, out |-> Return([errors |-> errors])]
                 ELSE [pc |-> "insert", options |-> options, inflight |-> inflight,
                       hashedPassword |-> Argon2Hash(options.password)]]
    /\ lastOp' = [op |-> "registerBegin", caller |-> c]
    /\ UNCHANGED <<users, session, redis, sent, now, ticks, tokenCount, issued, loggedOut,
                   lastLogin>>

RegisterInsert(c, fault) ==
    LET r == RegisterOutcome(users, reg[c].options, fault) IN
    /\ reg[c].pc = "insert"
    /\ users' = r.users
    /\ reg' = [reg EXCEPT ![c] =
                 [pc |-> "done", options |-> reg[c].options, fault |-> fault,
                  inflight |-> reg[c].inflight, out |-> r.out]]
    /\ lastOp' = [op |-> "registerInsert", caller |-> c]
    /\ UNCHANGED <<session, redis, sent, now, ticks, tokenCount, issued, loggedOut,
                   lastLogin>>

(***************************************************************************)
(* Session store (req.session of express-session).  A session object      *)
(* holds the property userId only after a login has set it.  A request     *)
(* that carries the cookie of a destroyed session is given a fresh,        *)
(* empty session object.                                                   *)
(***************************************************************************)
FreshSession == [destroyed |-> FALSE]

ReqSession(sess) == IF sess.destroyed THEN FreshSession ELSE sess

\* req.session.destroy(cb): the stored session after the call.  When the
\* store reports an error the entry may or may not have been removed.
SessionDestroy(sess, err, removed) ==
    IF err /\ ~removed THEN sess ELSE [destroyed |-> TRUE]

(***************************************************************************)
(* login (lines 110-150)                                                   *)
(***************************************************************************)
\* LoginCriteria that always looks up by username
LoginCriteria_AlwaysUsername(usernameOrEmail) ==
    [field |-> "username", value |-> usernameOrEmail]

\* lines 117-119: the findOne criteria
LoginCriteria(usernameOrEmail) ==
    IF Includes(usernameOrEmail, "@")
    THEN [field |-> "email", value |-> usernameOrEmail]
    ELSE [field |-> "username", value |-> usernameOrEmail]

\* LoginOutcome that reports an unknown identifier as a wrong password
LoginOutcome_UniformError(us, usernameOrEmail, password) ==
    LET c == LoginCriteria(usernameOrEmail)
        user == FindOne(us, c.field, c.value)
    IN  IF IsNull(user) \/ ~Argon2Verify(user.password, password)
        THEN [out |-> Return([errors |-> <<[field |-> "password",
                                            message |-> "incorrect password"]>>]),
              verified |-> ~IsNull(user), setUserId |-> <<>>]
        ELSE [out |-> Return([user |-> user]),
              verified |-> TRUE, setUserId |-> <<user.id>>]

\* LoginOutcome that writes the session before the password is verified
LoginOutcome_SetsSessionBeforeVerify(us, usernameOrEmail, password) ==
    LET c == LoginCriteria(usernameOrEmail)
        user == FindOne(us, c.field, c.value)
    IN  IF IsNull(user)
        THEN [out |-> Return([errors |-> <<[field |-> "usernameOrEmail",
                                            message |-> "username does not exist"]>>]),
              verified |-> FALSE, setUserId |-> <<>>]
        ELSE IF ~Argon2Verify(user.password, password)
        THEN [out |-> Return([errors |-> <<[field |-> "password",
                                            message |-> "incorrect password"]>>]),
              verified |-> TRUE, setUserId |-> <<user.id>>]
        ELSE [out |-> Return([user |-> user]),
              verified |-> TRUE, setUserId |-> <<user.id>>]

\* the whole handler: out, whether argon2.verify was called, and the
\* userId written to req.session (<<>> when none is written)
LoginOutcome(us, usernameOrEmail, password) ==
    LET c == LoginCriteria(usernameOrEmail)
        user == FindOne(us, c.field, c.value)
    IN  IF IsNull(user)
        THEN [out |-> Return([errors |-> <<[field |-> "usernameOrEmail",
                                            message |-> "username does not exist"]>>]),
              verified |-> FALSE, setUserId |-> <<>>]
        ELSE IF ~Argon2Verify(user.password, password)
        THEN [out |-> Return([errors |-> <<[field |-> "password",
                                            message |-> "incorrect password"]>>]),
              verified |-> TRUE, setUserId |-> <<>>]
        ELSE [out |-> Return([user |-> user]),
              verified |-> TRUE, setUserId |-> <<user.id>>]

\* LoginSession that keeps the userId a session already holds
LoginSession_KeepsFirstUser(sess, setUserId) ==
    IF setUserId = <<>> \/ "userId" \in DOMAIN sess THEN sess
    ELSE [destroyed |-> FALSE, userId |-> setUserId[1]]

\* line 145: the stored session object after the handler, given the session
\* object of the request and the userId the handler writes
LoginSession(sess, setUserId) ==
    IF setUserId = <<>> THEN sess
    ELSE [destroyed |-> FALSE, userId |-> setUserId[1]]

Login(s, usernameOrEmail, password) ==
    LET r == LoginOutcome(users, usernameOrEmail, password) IN
    /\ session' = IF r.setUserId = <<>> THEN session
                  ELSE [session EXCEPT ![s] =
                          LoginSession(ReqSession(session[s]), r.setUserId)]
    /\ lastLogin' = IF "user" \in DOMAIN r.out.value
                    THEN [lastLogin EXCEPT ![s] = <<r.out.value.user.id>>]
                    ELSE lastLogin
    /\ lastOp' = [op |-> "login", sid |-> s, usernameOrEmail |-> usernameOrEmail,
                  password |-> password, verified |-> r.verified, out |-> r.out,
                  before |-> session[s]]
    /\ loggedOut' = IF r.setUserId = <<>> THEN loggedOut
                    ELSE [loggedOut EXCEPT ![s] = FALSE]
    /\ UNCHANGED <<users, redis, sent, now, ticks, tokenCount, issued, reg>>

(***************************************************************************)
(* me (lines 55-65)                                                        *)
(***************************************************************************)
\* MeOutcome that rejects an anonymous session instead of answering null
MeOutcome_ThrowsWhenAnonymous(us, sess) ==
    IF "userId" \notin DOMAIN sess \/ sess.userId = 0
    THEN Throw("not authenticated")
    ELSE Return(FindOne(us, "id", sess.userId))

\* !req.session.userId: the property is missing, or is the falsy number 0
NoUserId(sess) == "userId" \notin DOMAIN sess \/ sess.userId = 0

MeOutcome(us, sess) ==
    IF NoUserId(sess)
    THEN Return(Null)
    ELSE Return(FindOne(us, "id", sess.userId))

Me(s) ==
    /\ lastOp' = [op |-> "me", sid |-> s,
                  out |-> MeOutcome(users, ReqSession(session[s]))]
    /\ UNCHANGED <<users, session, redis, sent, now, ticks, tokenCount, issued, loggedOut,
                   lastLogin, reg>>

(***************************************************************************)
(* logout (lines 152-166)                                                  *)
(***************************************************************************)
\* LogoutCallback that clears the cookie only after a clean destroy
LogoutCallback_KeepsCookieOnError(err) ==
    [cookieCleared |-> ~err, logged |-> err, out |-> Return(~err)]

\* the destroy callback (lines 155-164)
LogoutCallback(err) ==
    [cookieCleared |-> TRUE, logged |-> err, out |-> Return(~err)]

Logout(s, err, removed) ==
    LET cb == LogoutCallback(err) IN
    /\ ~err => removed
    /\ session' = [session EXCEPT ![s] = SessionDestroy(session[s], err, removed)]
    /\ lastOp' = [op |-> "logout", sid |-> s, err |-> err, destroyCalled |-> TRUE,
                  cookieCleared |-> cb.cookieCleared, out |-> cb.out]
    /\ loggedOut' = [loggedOut EXCEPT ![s] = TRUE]
    /\ lastLogin' = IF session'[s].destroyed
                    THEN [lastLogin EXCEPT ![s] = <<>>]
                    ELSE lastLogin
    /\ UNCHANGED <<users, redis, sent, now, ticks, tokenCount, issued, reg>>

(***************************************************************************)
(* Token Store (redis) and forgotPassword (lines 30-53)                    *)
(***************************************************************************)
\* ../constants: the fixed prefix of reset keys
FORGET_PASSWORD_PREFIX == "reset-"

\* ResetKey that stores the bare token
ResetKey_NoPrefix(token) == [prefix |-> "", token |-> token]

\* FORGET_PASSWORD_PREFIX + token
ResetKey(token) == [prefix |-> FORGET_PASSWORD_PREFIX, token |-> token]

\* the expiry argument of redis.set (line 45)
ResetTtlArg == 1000 * 60 * 60 * 24 * 3

\* SET key value EX n expires the key n seconds from now, PX n expires it
\* n milliseconds from now; the clock counts seconds.
RedisSet(r, key, value, unit, n, t) ==
    LET entry == [value |-> value,
                  expireAt |-> t + (IF unit = "ex" THEN n ELSE n \div 1000)]
    IN  [k \in DOMAIN r \cup {key} |-> IF k = key THEN entry ELSE r[k]]

\* GET key: <<value>>, or <<>> when the key is absent or expired
RedisGet(r, key, t) ==
    IF key \in DOMAIN r /\ t < r[key].expireAt THEN <<r[key].value>> ELSE <<>>

\* the body of the mail (line 50)
ResetLink(token) == [href |-> "http://localhost:3000/change-password/", token |-> token]

\* ForgotPasswordOutcome that answers false for an unknown email
ForgotPasswordOutcome_RevealsUnknown(us, r, email, token, notifierFails, t) ==
    LET user == FindOne(us, "email", email) IN
    IF IsNull(user)
    THEN [out |-> Return(FALSE), redis |-> r, mail |-> <<>>, effects |-> <<>>]
    ELSE [out |-> IF notifierFails THEN Throw("sendEmail") ELSE Return(TRUE),
          redis |-> RedisSet(r, ResetKey(token), user.id, "ex", ResetTtlArg, t),
          mail |-> <<[to |-> email, html |-> ResetLink(token)]>>,
          effects |-> <<"redis.set", "sendEmail">>]

\* ForgotPasswordOutcome that mails the link without looking the user up first
ForgotPasswordOutcome_MailsAnyAddress(us, r, email, token, notifierFails, t) ==
    LET user == FindOne(us, "email", email) IN
    IF IsNull(user)
    THEN [out |-> Return(TRUE), redis |-> r,
          mail |-> <<[to |-> email, html |-> ResetLink(token)]>>, effects |-> <<>>]
    ELSE [out |-> IF notifierFails THEN Throw("sendEmail") ELSE Return(TRUE),
          redis |-> RedisSet(r, ResetKey(token), user.id, "ex", ResetTtlArg, t),
          mail |-> <<[to |-> email, html |-> ResetLink(token)]>>,
          effects |-> <<"redis.set", "sendEmail">>]

\* ForgotPasswordOutcome that mails the link first and stores the token after
ForgotPasswordOutcome_MailsBeforeStoring(us, r, email, token, notifierFails, t) ==
    LET user == FindOne(us, "email", email) IN
    IF IsNull(user)
    THEN [out |-> Return(TRUE), redis |-> r, mail |-> <<>>, effects |-> <<>>]
    ELSE IF notifierFails
    THEN [out |-> Throw("sendEmail"), redis |-> r,
          mail |-> <<[to |-> email, html |-> ResetLink(token)]>>,
          effects |-> <<"sendEmail">>]
    ELSE [out |-> Return(TRUE),
          redis |-> RedisSet(r, ResetKey(token), user.id, "ex", ResetTtlArg, t),
          mail |-> <<[to |-> email, html |-> ResetLink(token)]>>,
          effects |-> <<"sendEmail", "redis.set">>]

\* ForgotPasswordOutcome that drops the user's older tokens before storing
ForgotPasswordOutcome_RevokesOlderTokens(us, r, email, token, notifierFails, t) ==
    LET user == FindOne(us, "email", email) IN
    IF IsNull(user)
    THEN [out |-> Return(TRUE), redis |-> r, mail |-> <<>>, effects |-> <<>>]
    ELSE LET kept == [k \in {x \in DOMAIN r : r[x].value # user.id} |-> r[k]] IN
         [out |-> IF notifierFails THEN Throw("sendEmail") ELSE Return(TRUE),
          redis |-> RedisSet(kept, ResetKey(token), user.id, "ex", ResetTtlArg, t),
          mail |-> <<[to |-> email, html |-> ResetLink(token)]>>,
          effects |-> <<"redis.set", "sendEmail">>]

\* the whole handler: out, the Token Store after it, the sendEmail calls
\* it made and the order of its effects
ForgotPasswordOutcome(us, r, email, token, notifierFails, t) ==
    LET user == FindOne(us, "email", email) IN
    IF IsNull(user)
    THEN [out |-> Return(TRUE), redis |-> r, mail |-> <<>>, effects |-> <<>>]
    ELSE [out |-> IF notifierFails THEN Throw("sendEmail") ELSE Return(TRUE),
          redis |-> RedisSet(r, ResetKey(token), user.id, "ex", ResetTtlArg, t),
          mail |-> <<[to |-> email, html |-> ResetLink(token)]>>,
          effects |-> <<"redis.set", "sendEmail">>]

\* v4(): a token that was never generated before
ForgotPassword(email, notifierFails) ==
    LET token == tokenCount + 1
        r == ForgotPasswordOutcome(users, redis, email, token, notifierFails, now)
        stored == r.effects # <<>>
    IN  /\ tokenCount < MaxTokens
        /\ notifierFails => stored
        /\ redis' = r.redis
        /\ sent' = sent \o r.mail
        /\ tokenCount' = IF stored THEN token ELSE tokenCount
        /\ issued' = IF ~stored THEN issued
                     ELSE [k \in DOMAIN issued \cup {token} |->
                             IF k = token
                             THEN [email |-> email,
                                   userId |-> FindOne(users, "email", email).id,
                                   at |-> now]
                             ELSE issued[k]]
        /\ lastOp' = [op |-> "forgotPassword", email |-> email,
                      notifierFails |-> notifierFails, token |-> token,
                      effects |-> r.effects, out |-> r.out]
        /\ UNCHANGED <<users, session, now, ticks, loggedOut, lastLogin, reg>>

(***************************************************************************)
(* Time                                                                    *)
(***************************************************************************)
DaySeconds == 60 * 60 * 24

\* the clock advances by one day, by three days or by ResetTtlArg seconds
TickSteps == {DaySeconds, 3 * DaySeconds, ResetTtlArg}

Tick(d) ==
    /\ ticks < MaxTicks
    /\ now' = now + d
    /\ ticks' = ticks + 1
    /\ lastOp' = [op |-> "tick", by |-> d]
    /\ UNCHANGED <<users, session, redis, sent, tokenCount, issued, loggedOut, lastLogin,
                   reg>>

Init ==
    /\ users = {}
    /\ session = [s \in Sessions |-> FreshSession]
    /\ redis = <<>>
    /\ sent = <<>>
    /\ now = 0
    /\ ticks = 0
    /\ tokenCount = 0
    /\ issued = <<>>
    /\ loggedOut = [s \in Sessions |-> FALSE]
    /\ lastLogin = [s \in Sessions |-> <<>>]
    /\ reg = [c \in Callers |-> [pc |-> "idle"]]
    /\ lastOp = [op |-> "init"]

(***************************************************************************)
(* Specifications.  SpecSession: accounts and sessions (register, login,   *)
(* me, logout).  SpecReset: accounts, reset tokens and time (register of   *)
(* valid accounts, forgotPassword, clock).  SpecConcurrent: register     *)
(* calls interleaved at their awaits.  Spec: every whole handler.          *)
(***************************************************************************)
RegisterAny ==
    \E u \in UsernameInputs, e \in EmailInputs, p \in RegisterPasswords,
       f \in InsertFaults :
        Register([username |-> u, email |-> e, password |-> p], f)

RegisterValid ==
    \E u \in {S_bob, S_amy}, e \in {S_a_at_x, S_b_at_x} :
        Register([username |-> u, email |-> e, password |-> S_pw1], "none")

LoginAny == \E s \in Sessions, i \in Strings, p \in Passwords : Login(s, i, p)

MeAny == \E s \in Sessions : Me(s)

LogoutAny == \E s \in Sessions, err \in BOOLEAN, removed \in BOOLEAN : Logout(s, err, removed)

ForgotPasswordAny == \E e \in Strings, f \in BOOLEAN : ForgotPassword(e, f)

TickAny == \E d \in TickSteps : Tick(d)

RegisterBeginAny ==
    \E c \in Callers, u \in {S_al, S_bob, S_amy}, e \in {S_a_at_x, S_b_at_x} :
        RegisterBegin(c, [username |-> u, email |-> e, password |-> S_pw1])

RegisterInsertAny == \E c \in Callers, f \in InsertFaults : RegisterInsert(c, f)

NextConcurrent == RegisterBeginAny \/ RegisterInsertAny

NextSession == RegisterAny \/ LoginAny \/ MeAny \/ LogoutAny

NextReset == RegisterValid \/ ForgotPasswordAny \/ TickAny

Next == RegisterAny \/ LoginAny \/ MeAny \/ LogoutAny \/ ForgotPasswordAny \/ TickAny

SpecConcurrent == Init /\ [][NextConcurrent]_vars

SpecSession == Init /\ [][NextSession]_vars

SpecReset == Init /\ [][NextReset]_vars

Spec == Init /\ [][Next]_vars

(***************************************************************************)
(* Shorthands for the properties.                                          *)
(***************************************************************************)
Returned(out) == out.kind = "return"

\* a response that carries a populated user
IsSuccess(out) ==
    /\ Returned(out)
    /\ "user" \in DOMAIN out.value
    /\ ~IsNull(out.value.user)

\* a response that carries field errors
HasErrors(out) == Returned(out) /\ "errors" \in DOMAIN out.value

\* a response that is one "already taken" field error
IsDuplicateError(out) ==
    /\ HasErrors(out)
    /\ Len(out.value.errors) = 1
    /\ out.value.errors[1].message = "this username has already been taken"

UsernameTaken(us, options) == \E u \in us : u.username = options.username

EmailTaken(us, options) == \E u \in us : u.email = options.email

\* a register call with valid input that met no storage fault
CleanRegister(op) ==
    /\ op.op = "register"
    /\ op.fault = "none"
    /\ validateRegister(op.options) = <<>>

(***************************************************************************)
(* C1: a register with valid input whose username and email are both new   *)
(* succeeds and adds exactly one record (carrying that username and that   *)
(* email); a register that reuses a stored username or a stored email      *)
(* fails with a duplicate field error and leaves the user records as they  *)
(* were.  Records are never removed, so every later reuse is covered.      *)
(***************************************************************************)
C1_RegisterStep ==
    CleanRegister(lastOp') =>
        IF UsernameTaken(users, lastOp'.options) \/ EmailTaken(users, lastOp'.options)
        THEN /\ IsDuplicateError(lastOp'.out)
             /\ users' = users
        ELSE /\ IsSuccess(lastOp'.out)
             /\ lastOp'.out.value.user.username = lastOp'.options.username
             /\ lastOp'.out.value.user.email = lastOp'.options.email
             /\ lastOp'.out.value.user \notin users
             /\ users' = users \cup {lastOp'.out.value.user}

C1_RegisterOncePerIdentity == [][C1_RegisterStep]_vars

\* a second register reusing only the email of a stored user was refused
C1_Witness ==
    /\ CleanRegister(lastOp)
    /\ IsDuplicateError(lastOp.out)
    /\ EmailTaken(users, lastOp.options)
    /\ ~UsernameTaken(users, lastOp.options)
    /\ Cardinality(users) = 1

(***************************************************************************)
(* C2: on a uniqueness violation register returns exactly one FieldError   *)
(* whose field names the violating column: "username" when (only) the      *)
(* username is the duplicate, "email" when (only) the email is.            *)
(***************************************************************************)
C2_DuplicateFieldNamesColumn ==
    (CleanRegister(lastOp) /\ HasErrors(lastOp.out)) =>
        /\ Len(lastOp.out.value.errors) = 1
        /\ (UsernameTaken(users, lastOp.options) /\ ~EmailTaken(users, lastOp.options))
              => lastOp.out.value.errors[1].field = "username"
        /\ (EmailTaken(users, lastOp.options) /\ ~UsernameTaken(users, lastOp.options))
              => lastOp.out.value.errors[1].field = "email"

(***************************************************************************)
(* C3: login with an identifier containing @ succeeds iff a user with that *)
(* email exists and the password verifies against that user's hash; with   *)
(* an identifier without @, iff a user with that username exists and the   *)
(* password verifies; and for a stored user, login by username and login   *)
(* by email have the same outcome and, on success, return that user.       *)
(***************************************************************************)
ShouldLogin(us, ident, pw) ==
    IF Includes(ident, "@")
    THEN \E u \in us : u.email = ident /\ Argon2Verify(u.password, pw)
    ELSE \E u \in us : u.username = ident /\ Argon2Verify(u.password, pw)

C3_LoginByUsernameOrEmail ==
    /\ lastOp.op = "login" =>
          (IsSuccess(lastOp.out)
             <=> ShouldLogin(users, lastOp.usernameOrEmail, lastOp.password))
    /\ \A i \in Strings, pw \in Passwords :
          IsSuccess(LoginOutcome(users, i, pw).out) <=> ShouldLogin(users, i, pw)
    /\ \A u \in users, pw \in Passwords :
          LET byName == LoginOutcome(users, u.username, pw).out
              byMail == LoginOutcome(users, u.email, pw).out
          IN  /\ byName = byMail
              /\ IsSuccess(byName) => byName.value.user = u

\* a login by email succeeded while two users are stored
C3_Witness ==
    /\ lastOp.op = "login"
    /\ Includes(lastOp.usernameOrEmail, "@")
    /\ IsSuccess(lastOp.out)
    /\ lastOp.out.value.user.email = lastOp.usernameOrEmail
    /\ Cardinality(users) = 2

(***************************************************************************)
(* C4: every failed login returns exactly one FieldError: on field         *)
(* "usernameOrEmail" when no user matches the lookup key, and then the     *)
(* password is not verified; on field "password" with message "incorrect   *)
(* password" when a user matches but the password does not verify.         *)
(***************************************************************************)
MatchesUser(us, ident) ==
    IF Includes(ident, "@")
    THEN \E u \in us : u.email = ident
    ELSE \E u \in us : u.username = ident

C4_FailedLoginError ==
    (lastOp.op = "login" /\ ~IsSuccess(lastOp.out)) =>
        /\ HasErrors(lastOp.out)
        /\ "user" \notin DOMAIN lastOp.out.value
        /\ Len(lastOp.out.value.errors) = 1
        /\ IF ~MatchesUser(users, lastOp.usernameOrEmail)
           THEN /\ lastOp.out.value.errors[1].field = "usernameOrEmail"
                /\ ~lastOp.verified
           ELSE /\ lastOp.out.value.errors[1].field = "password"
                /\ lastOp.out.value.errors[1].message = "incorrect password"
                /\ lastOp.verified

\* a login for a stored user was refused for its password
C4_Witness ==
    /\ lastOp.op = "login"
    /\ MatchesUser(users, lastOp.usernameOrEmail)
    /\ HasErrors(lastOp.out)
    /\ lastOp.out.value.errors[1].field = "password"

(***************************************************************************)
(* C5: a reset token stored by forgotPassword for a registered email       *)
(* resolves to that user's id at every lookup made less than 3 days        *)
(* (259,200,000 ms) after it was stored, and resolves to absent at every   *)
(* lookup made once 3 days have elapsed.                                   *)
(***************************************************************************)
ThreeDaysMs == 3 * DaySeconds * 1000

ElapsedMs(token) == (now - issued[token].at) * 1000

C5_TokenValidForThreeDays ==
    \A token \in DOMAIN issued :
        IF ElapsedMs(token) < ThreeDaysMs
        THEN RedisGet(redis, ResetKey(token), now) = <<issued[token].userId>>
        ELSE RedisGet(redis, ResetKey(token), now) = <<>>

(***************************************************************************)
(* C6: forgotPassword returns the same result, true, for a registered and  *)
(* for an unregistered email (no Notifier failure being injected): the     *)
(* returned value does not tell whether the email is registered.           *)
(***************************************************************************)
C6_SameResultForAnyEmail ==
    /\ (lastOp.op = "forgotPassword" /\ ~lastOp.notifierFails)
          => lastOp.out = Return(TRUE)
    /\ \A e1 \in Strings, e2 \in Strings :
          ForgotPasswordOutcome(users, redis, e1, tokenCount + 1, FALSE, now).out
            = ForgotPasswordOutcome(users, redis, e2, tokenCount + 1, FALSE, now).out

\* forgotPassword answered true for an email-shaped address nobody
\* registered, while another email is registered
C6_Witness ==
    /\ lastOp.op = "forgotPassword"
    /\ Includes(lastOp.email, "@")
    /\ ~\E u \in users : u.email = lastOp.email
    /\ users # {}
    /\ lastOp.out = Return(TRUE)

(***************************************************************************)
(* C7: forgotPassword writes the Token Store and invokes the Notifier iff  *)
(* the email belongs to a user: for an unregistered email the Token Store  *)
(* is unchanged and the Notifier is not invoked; for a registered email    *)
(* exactly one entry is written (prefixed key -> that user's id) and the   *)
(* Notifier is invoked once, with that email and that token.               *)
(***************************************************************************)
C7_ForgotPasswordStep ==
    lastOp'.op = "forgotPassword" =>
        IF ~\E u \in users : u.email = lastOp'.email
        THEN /\ redis' = redis
             /\ sent' = sent
        ELSE LET user == CHOOSE u \in users : u.email = lastOp'.email
                 key == [prefix |-> FORGET_PASSWORD_PREFIX, token |-> lastOp'.token]
             IN  /\ key \notin DOMAIN redis
                 /\ DOMAIN redis' = DOMAIN redis \cup {key}
                 /\ redis'[key].value = user.id
                 /\ \A k \in DOMAIN redis : redis'[k] = redis[k]
                 /\ Len(sent') = Len(sent) + 1
                 /\ \A i \in 1..Len(sent) : sent'[i] = sent[i]
                 /\ sent'[Len(sent')].to = lastOp'.email
                 /\ sent'[Len(sent')].html.token = lastOp'.token

C7_TokenAndMailIffRegistered == [][C7_ForgotPasswordStep]_vars

\* a second request for a registered email stored a second entry and mailed it
C7_Witness ==
    /\ lastOp.op = "forgotPassword"
    /\ \E u \in users : u.email = lastOp.email
    /\ ResetKey(lastOp.token) \in DOMAIN redis
    /\ Cardinality(DOMAIN redis) = 2
    /\ Len(sent) = 2
    /\ sent[2].to = lastOp.email

(***************************************************************************)
(* C8: every logout calls session destroy and clears the session cookie,   *)
(* whether or not destroy reports an error; it returns true exactly when   *)
(* destroy reports no error, false exactly when it reports one, and never  *)
(* throws.                                                                 *)
(***************************************************************************)
C8_LogoutAlwaysClearsCookie ==
    lastOp.op = "logout" =>
        /\ lastOp.destroyCalled
        /\ lastOp.cookieCleared
        /\ Returned(lastOp.out)
        /\ lastOp.out.value = ~lastOp.err
        /\ ~lastOp.err => session[lastOp.sid].destroyed

\* a logout whose destroy reported an error on an authenticated session
C8_Witness ==
    /\ lastOp.op = "logout"
    /\ lastOp.err
    /\ lastOp.out = Return(FALSE)
    /\ lastOp.cookieCleared
    /\ ~session[lastOp.sid].destroyed
    /\ "userId" \in DOMAIN session[lastOp.sid]

(***************************************************************************)
(* C9: after any logout on a session, whichever boolean it returned, every *)
(* me call on that session returns absent until a new login succeeds on    *)
(* it; a session never goes from destroyed back to authenticated without   *)
(* a new login.                                                            *)
(***************************************************************************)
C9_AbsentAfterLogout ==
    \A s \in Sessions :
        loggedOut[s] =>
            /\ MeOutcome(users, ReqSession(session[s])) = Return(Null)
            /\ (lastOp.op = "me" /\ lastOp.sid = s) => lastOp.out = Return(Null)

C9_NoLoginNoAuthentication ==
    \A s \in Sessions :
        (session[s].destroyed /\ ~NoUserId(session'[s]))
            => (lastOp'.op = "login" /\ lastOp'.sid = s /\ IsSuccess(lastOp'.out))

C9_LoggedOutUntilLogin == []C9_AbsentAfterLogout /\ [][C9_NoLoginNoAuthentication]_vars

(***************************************************************************)
(* C10: me returns the user whose id is session.userId when the session    *)
(* holds a userId and that user exists, and returns the absent value,      *)
(* never an error, when the session holds no userId or no such user        *)
(* exists; it changes neither the session nor any store.                   *)
(***************************************************************************)
C10_MeResult ==
    lastOp.op = "me" =>
        LET sess == ReqSession(session[lastOp.sid]) IN
        /\ Returned(lastOp.out)
        /\ IF "userId" \in DOMAIN sess /\ \E u \in users : u.id = sess.userId
           THEN /\ lastOp.out.value \in users
                /\ lastOp.out.value.id = sess.userId
           ELSE lastOp.out.value = Null

C10_MeFrame ==
    lastOp'.op = "me" => UNCHANGED <<users, session, redis, sent>>

C10_CurrentUser == []C10_MeResult /\ [][C10_MeFrame]_vars

\* me answered with the second registered user, the one the session holds
C10_Witness ==
    /\ lastOp.op = "me"
    /\ "userId" \in DOMAIN session[lastOp.sid]
    /\ session[lastOp.sid].userId = FirstId + 1
    /\ lastOp.out.value \in users
    /\ lastOp.out.value.id = FirstId + 1

(***************************************************************************)
(* C11: every result returned by register and by login is exactly one of:  *)
(* a populated user with no errors, or a non-empty list of FieldError with *)
(* no user; never both, never neither.                                     *)
(***************************************************************************)
PopulatedUser(resp) == "user" \in DOMAIN resp /\ ~IsNull(resp.user)

NonEmptyErrors(resp) == "errors" \in DOMAIN resp /\ Len(resp.errors) > 0

C11_UserXorErrors ==
    (lastOp.op \in {"register", "login"} /\ Returned(lastOp.out)) =>
        /\ PopulatedUser(lastOp.out.value) \/ NonEmptyErrors(lastOp.out.value)
        /\ ~(PopulatedUser(lastOp.out.value) /\ NonEmptyErrors(lastOp.out.value))

(***************************************************************************)
(* C12: under every interleaving of concurrent register calls no two User  *)
(* records share a username or share an email; of concurrent registers     *)
(* that use the same username or the same email at most one returns        *)
(* success, and each of the others returns a duplicate field error         *)
(* (calls that meet no storage fault).                                     *)
(***************************************************************************)
\* a finished call with valid input that met no storage fault
CleanDone(call) ==
    /\ call.pc = "done"
    /\ call.fault = "none"
    /\ validateRegister(call.options) = <<>>

SameIdentity(o1, o2) == o1.username = o2.username \/ o1.email = o2.email

C12_ConcurrentRegisterUnique ==
    /\ \A u1 \in users, u2 \in users :
          (u1.username = u2.username \/ u1.email = u2.email \/ u1.id = u2.id)
              => u1 = u2
    /\ \A c1 \in Callers, c2 \in Callers :
          (/\ c1 # c2
           /\ CleanDone(reg[c1])
           /\ CleanDone(reg[c2])
           /\ SameIdentity(reg[c1].options, reg[c2].options))
              => ~(IsSuccess(reg[c1].out) /\ IsSuccess(reg[c2].out))
    /\ \A c \in Callers :
          CleanDone(reg[c]) =>
              \/ /\ IsSuccess(reg[c].out)
                 /\ reg[c].out.value.user \in users
              \/ /\ IsDuplicateError(reg[c].out)
                 /\ \E u \in users : SameIdentity(u, reg[c].options)

\* two calls with one email and different usernames overlapped: the first
\* was between validation and insert when the second began; one succeeded,
\* the other got the duplicate error
C12_Witness ==
    \E c1 \in Callers, c2 \in Callers :
        /\ c1 # c2
        /\ CleanDone(reg[c1])
        /\ CleanDone(reg[c2])
        /\ c1 \in reg[c2].inflight
        /\ reg[c1].options.email = reg[c2].options.email
        /\ reg[c1].options.username # reg[c2].options.username
        /\ IsDuplicateError(reg[c1].out)
        /\ IsSuccess(reg[c2].out)

(***************************************************************************)
(* C13: when the insert inside register fails for a reason other than a    *)
(* uniqueness violation, register surfaces a generic failure (a thrown     *)
(* error): it returns no normal response, neither a field-error result     *)
(* (so never a duplicate) nor a success result.                            *)
(***************************************************************************)
C13_StorageFaultIsGenericFailure ==
    (lastOp.op = "register" /\ lastOp.fault # "none") =>
        /\ ~Returned(lastOp.out)
        /\ lastOp.out.kind = "throw"

(***************************************************************************)
(* C14: a session that is not destroyed either holds no userId (no login   *)
(* has succeeded on it) or holds the id of the user returned by the most   *)
(* recent successful login on it; a successful login on an authenticated   *)
(* session replaces the userId with the new user's id.                     *)
(***************************************************************************)
C14_SessionHoldsLatestLogin ==
    /\ \A s \in Sessions :
          ~session[s].destroyed =>
              IF lastLogin[s] = <<>>
              THEN "userId" \notin DOMAIN session[s]
              ELSE /\ "userId" \in DOMAIN session[s]
                   /\ session[s].userId = lastLogin[s][1]
    /\ (lastOp.op = "login" /\ IsSuccess(lastOp.out)) =>
          /\ ~session[lastOp.sid].destroyed
          /\ "userId" \in DOMAIN session[lastOp.sid]
          /\ session[lastOp.sid].userId = lastOp.out.value.user.id

C14_Relogin ==
    (/\ lastOp'.op = "login"
     /\ IsSuccess(lastOp'.out)
     /\ ~NoUserId(session[lastOp'.sid]))
        => session'[lastOp'.sid].userId = lastOp'.out.value.user.id

C14_SessionUserId == []C14_SessionHoldsLatestLogin /\ [][C14_Relogin]_vars

\* a login as the second user succeeded on a session that held the first user
C14_Witness ==
    /\ lastOp.op = "login"
    /\ IsSuccess(lastOp.out)
    /\ "userId" \in DOMAIN lastOp.before
    /\ lastOp.before.userId = FirstId
    /\ lastOp.out.value.user.id = FirstId + 1
    /\ session[lastOp.sid].userId = FirstId + 1

(***************************************************************************)
(* C15: in forgotPassword for a registered email the token is stored       *)
(* before the Notifier is invoked, so the Notifier is never given a token  *)
(* that is absent from the Token Store; if the Notifier then fails, the    *)
(* operation propagates a failure instead of returning true, and the       *)
(* token already stored stays in the Token Store.                          *)
(***************************************************************************)
StoredBeforeMailed(effects) ==
    \A j \in 1..Len(effects) :
        effects[j] = "sendEmail" => \E i \in 1..(j - 1) : effects[i] = "redis.set"

C15_StoreThenNotify ==
    /\ (lastOp.op = "forgotPassword" /\ lastOp.effects # <<>>) =>
          /\ StoredBeforeMailed(lastOp.effects)
          /\ RedisGet(redis, ResetKey(lastOp.token), now)
                = <<issued[lastOp.token].userId>>
          /\ lastOp.notifierFails =>
                /\ lastOp.out.kind = "throw"
                /\ lastOp.out # Return(TRUE)
                /\ ResetKey(lastOp.token) \in DOMAIN redis
    /\ \A i \in 1..Len(sent) : ResetKey(sent[i].html.token) \in DOMAIN redis

\* the Notifier failed for a registered email and the token is in the store
C15_Witness ==
    /\ lastOp.op = "forgotPassword"
    /\ lastOp.notifierFails
    /\ lastOp.out.kind = "throw"
    /\ RedisGet(redis, ResetKey(lastOp.token), now) # <<>>
    /\ Len(sent) > 0
    /\ sent[Len(sent)].html.token = lastOp.token

(***************************************************************************)
(* C16: forgotPassword never overwrites or removes an existing Token Store *)
(* entry: every unexpired token stored earlier, for the same user or       *)
(* another, still resolves to the same user id afterwards, so repeated     *)
(* requests for one email leave several tokens valid at the same time      *)
(* (generated tokens being fresh).                                         *)
(***************************************************************************)
C16_ForgotPasswordKeeps ==
    lastOp'.op = "forgotPassword" =>
        \A k \in DOMAIN redis :
            /\ k \in DOMAIN redis'
            /\ redis'[k] = redis[k]
            /\ RedisGet(redis', k, now') = RedisGet(redis, k, now)

C16_UnexpiredStaysValid ==
    \A token \in DOMAIN issued :
        now - issued[token].at < ResetTtlArg
            => RedisGet(redis, ResetKey(token), now) = <<issued[token].userId>>

C16_NoClobber == []C16_UnexpiredStaysValid /\ [][C16_ForgotPasswordKeeps]_vars

\* two requests for one email, a day apart: both tokens resolve to the user
C16_Witness ==
    /\ lastOp.op = "forgotPassword"
    /\ Cardinality(DOMAIN issued) = 2
    /\ issued[1].email = issued[2].email
    /\ issued[1].at < issued[2].at
    /\ RedisGet(redis, ResetKey(1), now) = <<issued[1].userId>>
    /\ RedisGet(redis, ResetKey(2), now) = <<issued[1].userId>>

(***************************************************************************)
(* C17: a login that fails, with the unknown-identifier error or with the  *)
(* incorrect-password error, leaves the session unchanged: an anonymous    *)
(* session stays anonymous, an authenticated one keeps its userId.         *)
(***************************************************************************)
C17_FailedLoginStep ==
    (lastOp'.op = "login" /\ ~IsSuccess(lastOp'.out)) =>
        /\ session' = session
        /\ NoUserId(session[lastOp'.sid]) => NoUserId(session'[lastOp'.sid])
        /\ ~NoUserId(session[lastOp'.sid]) =>
              session'[lastOp'.sid].userId = session[lastOp'.sid].userId

C17_FailedLoginKeepsSession == [][C17_FailedLoginStep]_vars

\* a wrong password for the second user on a session that holds the first
C17_Witness ==
    /\ lastOp.op = "login"
    /\ HasErrors(lastOp.out)
    /\ lastOp.out.value.errors[1].field = "password"
    /\ "userId" \in DOMAIN lastOp.before
    /\ lastOp.before.userId = FirstId
    /\ FindOne(users, LoginCriteria(lastOp.usernameOrEmail).field,
               lastOp.usernameOrEmail).id = FirstId + 1
    /\ session[lastOp.sid] = lastOp.before

(***************************************************************************)
(* C18: register never reads or writes the session: after a successful     *)
(* register on an anonymous session, me on that session still returns      *)
(* absent until a login succeeds; only login creates an authenticated      *)
(* session.                                                                *)
(***************************************************************************)
C18_RegisterStep ==
    lastOp'.op = "register" =>
        /\ session' = session
        /\ \A s \in Sessions :
              MeOutcome(users', ReqSession(session'[s]))
                = MeOutcome(users, ReqSession(session[s]))

C18_OnlyLoginAuthenticates ==
    \A s \in Sessions :
        (NoUserId(ReqSession(session[s])) /\ ~NoUserId(ReqSession(session'[s])))
            => (lastOp'.op = "login" /\ lastOp'.sid = s /\ IsSuccess(lastOp'.out))

C18_RegisterLeavesSession == [][C18_RegisterStep /\ C18_OnlyLoginAuthenticates]_vars

\* a register succeeded and every session is still anonymous
C18_Witness ==
    /\ lastOp.op = "register"
    /\ IsSuccess(lastOp.out)
    /\ lastOp.out.value.user \in users
    /\ \A s \in Sessions : MeOutcome(users, ReqSession(session[s])) = Return(Null)

(***************************************************************************)
(* C19: every key in the Token Store carries the fixed reset prefix and    *)
(* maps to the id of a user that exists in the User Store, the user whose  *)
(* email was given to the forgotPassword call that created the key.        *)
(***************************************************************************)
C19_TokenKeysWellFormed ==
    \A k \in DOMAIN redis :
        /\ k.prefix = FORGET_PASSWORD_PREFIX
        /\ k.token \in DOMAIN issued
        /\ \E u \in users :
              /\ u.id = redis[k].value
              /\ u.email = issued[k.token].email

\* two keys in the store, for two different users
C19_Witness ==
    /\ Cardinality(DOMAIN redis) = 2
    /\ \E k1 \in DOMAIN redis, k2 \in DOMAIN redis : redis[k1].value # redis[k2].value
====
